---- MODULE Spec2Model ----
(***************************************************************************)
(* Search server: inverted index (word_to_document_freqs_), reverse index  *)
(* (document_to_word_freqs_), document store, query parser, sequential and *)
(* parallel ranking over the sharded ConcurrentMap, document matching.     *)
(*                                                                         *)
(* Strings are sequences of character codes (32 = ' ', 45 = '-').          *)
(* Term frequencies are exact multiples of 1/FreqUnit.                     *)
(***************************************************************************)
EXTENDS Integers, Sequences, FiniteSets, TLC

\* ------------------------------------------------------------------ bounds
\* number of document ids the callers use
MaxDocs == 2
\* number of tokens in a document text
MaxTextLen == 2
\* number of tokens in a query text
MaxQueryLen == 2
\* cap on a forward-map frequency that accumulates over repeated additions of
\* one document id, in whole units (1.0)
MaxAccum == 1

\* ----------------------------------------------------------------- strings
W_a == <<97>>
W_b == <<98>>
W_in == <<105, 110>>
\* a word with a control character (tab)
W_ctl == <<97, 9>>
\* what freed memory may read as when it holds none of the indexed words
W_junk == <<63>>
W_minus == <<45>>

\* lexicographic order of std::string / std::string_view (operator<)
RECURSIVE StrLess(_, _)
StrLess(u, v) ==
    IF v = <<>> THEN FALSE
    ELSE IF u = <<>> THEN TRUE
    ELSE IF Head(u) # Head(v) THEN Head(u) < Head(v)
    ELSE StrLess(Tail(u), Tail(v))

\* the least string of a non-empty set
MinStr(S) == CHOOSE u \in S : \A v \in S : v = u \/ StrLess(u, v)

\* the elements of a set of strings in ascending order (iteration order of a
\* std::map / std::set keyed by strings, and the result of sort + unique)
RECURSIVE SortedSeq(_)
SortedSeq(S) ==
    IF S = {} THEN <<>>
    ELSE LET m == MinStr(S) IN <<m>> \o SortedSeq(S \ {m})

Range(s) == {s[i] : i \in DOMAIN s}

\* text of a token list: the tokens joined by single spaces
RECURSIVE Join(_)
Join(ws) ==
    IF ws = <<>> THEN <<>>
    ELSE IF Len(ws) = 1 THEN ws[1]
    ELSE ws[1] \o <<32>> \o Join(Tail(ws))

\* all token lists of length at most n over a token set
RECURSIVE TokenLists(_, _)
TokenLists(T, n) ==
    IF n = 0 THEN {<<>>}
    ELSE LET shorter == TokenLists(T, n - 1)
         IN shorter \cup {Append(ws, t) : ws \in shorter, t \in T}

\* string_processing: split on spaces, empty tokens dropped
RECURSIVE SplitFrom(_, _, _)
SplitFrom(text, word, words) ==
    IF text = <<>>
    THEN IF word # <<>> THEN Append(words, word) ELSE words
    ELSE IF Head(text) = 32
         THEN SplitFrom(Tail(text), <<>>,
                        IF word # <<>> THEN Append(words, word) ELSE words)
         ELSE SplitFrom(Tail(text), Append(word, Head(text)), words)

SplitIntoWords(text) == SplitFrom(text, <<>>, <<>>)

\* ------------------------------------------------------------ search server
\* the stop words the server is constructed with
stop_words_ == {W_in}

IsStopWord_never(word) == FALSE
IsStopWord(word) == word \in stop_words_

\* no character c with c >= '\0' && c < ' '
IsValidWord(word) == \A i \in DOMAIN word : ~(word[i] >= 0 /\ word[i] < 32)

\* [ok |-> FALSE] stands for the std::invalid_argument thrown
RECURSIVE NoStopFrom(_, _)
NoStopFrom(ws, words) ==
    IF ws = <<>> THEN [ok |-> TRUE, words |-> words]
    ELSE IF ~IsValidWord(Head(ws)) THEN [ok |-> FALSE, words |-> <<>>]
    ELSE NoStopFrom(Tail(ws),
                    IF ~IsStopWord(Head(ws)) THEN Append(words, Head(ws)) ELSE words)

SplitIntoWordsNoStop(text) == NoStopFrom(SplitIntoWords(text), <<>>)

ParseQueryWord(text) ==
    IF text = <<>> THEN [ok |-> FALSE, data |-> <<>>, is_minus |-> FALSE, is_stop |-> FALSE]
    ELSE LET is_minus == text[1] = 45
             word == IF is_minus THEN Tail(text) ELSE text
         IN IF word = <<>> \/ word[1] = 45 \/ ~IsValidWord(word)
            THEN [ok |-> FALSE, data |-> <<>>, is_minus |-> FALSE, is_stop |-> FALSE]
            ELSE [ok |-> TRUE, data |-> word, is_minus |-> is_minus,
                  is_stop |-> IsStopWord(word)]

RECURSIVE ParseFrom(_, _, _)
ParseFrom(ws, plus, minus) ==
    IF ws = <<>> THEN [ok |-> TRUE, plus_words |-> plus, minus_words |-> minus]
    ELSE LET qw == ParseQueryWord(Head(ws))
         IN IF ~qw.ok THEN [ok |-> FALSE, plus_words |-> <<>>, minus_words |-> <<>>]
            ELSE IF qw.is_stop THEN ParseFrom(Tail(ws), plus, minus)
            ELSE IF qw.is_minus THEN ParseFrom(Tail(ws), plus, Append(minus, qw.data))
            ELSE ParseFrom(Tail(ws), Append(plus, qw.data), minus)

\* std::sort followed by erase(unique)
SortUnique(ws) == SortedSeq(Range(ws))

ParseQuery(text, is_parallel) ==
    LET result == ParseFrom(SplitIntoWords(text), <<>>, <<>>)
    IN IF result.ok /\ is_parallel
       THEN [ok |-> TRUE,
             plus_words |-> SortUnique(result.plus_words),
             minus_words |-> SortUnique(result.minus_words)]
       ELSE result

\* ------------------------------------------------------------------- maps
\* std::map as a function; EmptyMap is a default-constructed map
EmptyMap == [x \in {} |-> 0]

\* m[k] = v, the key created when absent
Put(m, k, v) == [x \in DOMAIN m \cup {k} |-> IF x = k THEN v ELSE m[x]]

\* m.erase(k)
Drop(m, k) == [x \in DOMAIN m \ {k} |-> m[x]]

\* ------------------------------------------------------------ frequencies
RECURSIVE Gcd(_, _)
Gcd(a, b) == IF b = 0 THEN a ELSE Gcd(b, a % b)

RECURSIVE LcmUpTo(_)
LcmUpTo(n) ==
    IF n <= 1 THEN 1
    ELSE LET l == LcmUpTo(n - 1) IN (l * n) \div Gcd(l, n)

\* frequencies are stored in units of 1/FreqUnit, so that 1/n is exact for
\* every word count n a document of the model can have
FreqUnit == LcmUpTo(MaxTextLen)

\* const double inv_word_count = 1.0 / words.size();
\* (+inf for an empty word list, which the loop then never adds)
InvWordCount_unscaled(n) == FreqUnit
InvWordCount(n) == IF n = 0 THEN 0 ELSE FreqUnit \div n

\* ------------------------------------------------------------------ index
\* The four containers of a SearchServer:
\*   w2d  word_to_document_freqs_    word -> (document id -> frequency)
\*   d2w  document_to_word_freqs_    document id -> (word -> frequency)
\*   docs documents_                 document id -> DocumentData
\*   ids  document_ids_              set of document ids
EmptyIndex == [w2d |-> EmptyMap, d2w |-> EmptyMap, docs |-> EmptyMap, ids |-> {}]

\* word_to_document_freqs_[word][document_id] += inv_word_count;
AddForward(w2d, word, id, inv) ==
    LET bucket == IF word \in DOMAIN w2d THEN w2d[word] ELSE EmptyMap
        old == IF id \in DOMAIN bucket THEN bucket[id] ELSE 0
    IN Put(w2d, word, Put(bucket, id, old + inv))

\* document_to_word_freqs_[document_id][word] += inv_word_count;
AddReverse(d2w, id, word, inv) ==
    LET entry == IF id \in DOMAIN d2w THEN d2w[id] ELSE EmptyMap
        old == IF word \in DOMAIN entry THEN entry[word] ELSE 0
    IN Put(d2w, id, Put(entry, word, old + inv))

\* the loop of AddDocument over the words of the document
RECURSIVE IndexWords(_, _, _, _)
IndexWords(S, id, words, inv) ==
    IF words = <<>> THEN S
    ELSE IndexWords([S EXCEPT !.w2d = AddForward(S.w2d, Head(words), id, inv),
                              !.d2w = AddReverse(S.d2w, id, Head(words), inv)],
                    id, Tail(words), inv)

RECURSIVE SumSeq(_)
SumSeq(s) == IF s = <<>> THEN 0 ELSE Head(s) + SumSeq(Tail(s))

\* C++ integer division: truncation toward zero
TruncDiv(a, b) == IF a >= 0 THEN a \div b ELSE -((-a) \div b)

\* rating_sum / static_cast<int>(ratings.size()); the caller handles size 0
ComputeAverageRating(ratings) == TruncDiv(SumSeq(ratings), Len(ratings))

\* (document_id < 0) || (documents_.count(document_id) > 0)
IdRejected_signOnly(S, id) == id < 0
IdRejected(S, id) == id < 0 \/ id \in DOMAIN S.docs

\* documents_.emplace(...); document_ids_.insert(document_id);
StoreDocument(S, id, rating, status) ==
    [S EXCEPT !.docs = IF id \in DOMAIN S.docs THEN S.docs
                       ELSE Put(S.docs, id, [rating |-> rating, status |-> status]),
              !.ids = S.ids \cup {id}]

\* AddDocument: the set of its outcomes [outcome, S].
\*   "throw"  std::invalid_argument, thrown before anything is written
\*   "ok"     the call returns
\*   "abort"  empty ratings: the integer division by zero of
\*            ComputeAverageRating is undefined; the build either traps
\*            (the process ends after both maps were written) or yields 0
AddDocumentOutcomes(S, id, text, status, ratings) ==
    IF IdRejected(S, id) THEN {[outcome |-> "throw", S |-> S]}
    ELSE LET r == SplitIntoWordsNoStop(text)
         IN IF ~r.ok THEN {[outcome |-> "throw", S |-> S]}
            ELSE LET words == r.words
                     inv == InvWordCount(Len(words))
                     T == IndexWords(S, id, words, inv)
                 IN IF ratings = <<>>
                    THEN {[outcome |-> "abort", S |-> T],
                          [outcome |-> "ok", S |-> StoreDocument(T, id, 0, status)]}
                    ELSE {[outcome |-> "ok",
                           S |-> StoreDocument(T, id, ComputeAverageRating(ratings), status)]}

\* GetWordFrequencies: the stored map, or the static empty map
GetWordFrequencies(S, id) == IF id \in DOMAIN S.d2w THEN S.d2w[id] ELSE EmptyMap

\* The keys of document_to_word_freqs_[id] are string_views into the local
\* vector `words` of AddDocument, destroyed when AddDocument returns: every
\* later read of a key reads freed memory.  It reads the word that was
\* stored, or whatever the memory holds by then.
MemoryContents == {W_junk}
DanglingReads(key) == {key} \cup MemoryContents

\* word_to_document_freqs_[word].erase(document_id): operator[] creates the
\* bucket when the word is no key yet
StripForward(w2d, word, id) ==
    Put(w2d, word, IF word \in DOMAIN w2d THEN Drop(w2d[word], id) ELSE EmptyMap)

RECURSIVE StripAll(_, _, _)
StripAll(w2d, words, id) ==
    IF words = <<>> THEN w2d
    ELSE StripAll(StripForward(w2d, Head(words), id), Tail(words), id)

\* document_to_word_freqs_.erase(document_id);
EraseReverse_skip(d2w, id) == d2w
EraseReverse(d2w, id) == Drop(d2w, id)

\* RemoveDocument with `read` the word each key of the document reads as
RemoveDocumentWith(S, id, read) ==
    LET keys == SortedSeq(DOMAIN GetWordFrequencies(S, id))
        words == [i \in DOMAIN keys |-> read[keys[i]]]
    IN [w2d |-> StripAll(S.w2d, words, id),
        d2w |-> EraseReverse(S.d2w, id),
        docs |-> Drop(S.docs, id),
        ids |-> S.ids \ {id}]

KeyReads(S, id) ==
    LET keys == DOMAIN GetWordFrequencies(S, id)
    IN {read \in [keys -> UNION {DanglingReads(k) : k \in keys}] :
            \A k \in keys : read[k] \in DanglingReads(k)}

RemoveDocumentOutcomes(S, id) == {RemoveDocumentWith(S, id, read) : read \in KeyReads(S, id)}

\* ------------------------------------------------------------------ match
\* a function-local static before its first successful initialisation
NoQuery == [ok |-> FALSE, plus_words |-> <<>>, minus_words |-> <<>>]

\* static const auto& query = ParseQuery(...): initialised by the first call
\* that reaches the declaration and whose ParseQuery does not throw (a
\* throwing initialisation is tried again by the next call); every later call
\* uses the stored query
StaticQuery(stored, raw_query, is_parallel) ==
    IF stored.ok THEN stored ELSE ParseQuery(raw_query, is_parallel)

\* documents_.at(document_id).status
StoredStatus_actual(S, id) == "ACTUAL"
StoredStatus(S, id) == S.docs[id].status

\* word_to_document_freqs_.count(word)!=0 && word_to_document_freqs_.at(word).count(document_id)
WordInDocument(S, word, id) == word \in DOMAIN S.w2d /\ id \in DOMAIN S.w2d[word]

\* the elements of a sequence that satisfy Test, in order (std::copy_if)
RECURSIVE CopyIf(_, _, _)
CopyIf(ws, S, id) ==
    IF ws = <<>> THEN <<>>
    ELSE IF WordInDocument(S, Head(ws), id)
         THEN <<Head(ws)>> \o CopyIf(Tail(ws), S, id)
         ELSE CopyIf(Tail(ws), S, id)

\* MatchDocument(raw_query, document_id): [outcome, words, status, query],
\* query the static after the call
MatchDocumentOp(S, stored, raw_query, id) ==
    IF id \notin S.ids
    THEN [outcome |-> "out_of_range", words |-> <<>>, status |-> "", query |-> stored]
    ELSE LET query == StaticQuery(stored, raw_query, TRUE)
         IN IF ~query.ok
            THEN [outcome |-> "invalid_argument", words |-> <<>>, status |-> "",
                  query |-> stored]
            ELSE IF id \notin DOMAIN S.docs
            THEN [outcome |-> "out_of_range", words |-> <<>>, status |-> "", query |-> query]
            ELSE IF \E i \in DOMAIN query.minus_words :
                       WordInDocument(S, query.minus_words[i], id)
            THEN [outcome |-> "ok", words |-> <<>>, status |-> StoredStatus(S, id),
                  query |-> query]
            ELSE [outcome |-> "ok", words |-> CopyIf(query.plus_words, S, id),
                  status |-> StoredStatus(S, id), query |-> query]

\* MatchDocument(std::execution::par, raw_query, document_id): find_if and
\* copy_if only read, so their results do not depend on the schedule
MatchDocumentParOp(S, stored, raw_query, id) ==
    IF id \notin S.ids
    THEN [outcome |-> "out_of_range", words |-> <<>>, status |-> "", query |-> stored]
    ELSE LET query == StaticQuery(stored, raw_query, FALSE)
         IN IF ~query.ok
            THEN [outcome |-> "invalid_argument", words |-> <<>>, status |-> "",
                  query |-> stored]
            ELSE IF id \notin DOMAIN S.docs
            THEN [outcome |-> "out_of_range", words |-> <<>>, status |-> "", query |-> query]
            ELSE IF \E i \in DOMAIN query.minus_words :
                       WordInDocument(S, query.minus_words[i], id)
            THEN [outcome |-> "ok", words |-> <<>>, status |-> StoredStatus(S, id),
                  query |-> query]
            ELSE [outcome |-> "ok", words |-> SortUnique(CopyIf(query.plus_words, S, id)),
                  status |-> StoredStatus(S, id), query |-> query]

\* ---------------------------------------------------------------- ranking
\* const double EPSILON = 1e-6;  (as 1/EpsilonInverse)
EpsilonInverse == 1000000
\* const int MAX_RESULT_DOCUMENT_COUNT = 5;
MAX_RESULT_DOCUMENT_COUNT == 5

\* logarithms are held in units of 1 / LnUnit, finer than EPSILON
LnUnit == 2 * EpsilonInverse
\* LnUnit * ln(n), rounded, for the document counts that occur
Ln(n) == <<0, 1386294, 2197225, 2772589, 3218876, 3583519, 3891820, 4158883>>[n]

\* relevance is held in units of 1 / RelUnit
RelUnit == LnUnit * FreqUnit

\* log(GetDocumentCount() * 1.0 / word_to_document_freqs_.at(word).size()),
\* in units of 1 / LnUnit.  With no document or an empty bucket the value is infinite
\* and never used: no frequency of the bucket is multiplied by it before
\* documents_.at throws or the loop ends.
ComputeWordInverseDocumentFreq(S, word) ==
    LET count == Cardinality(DOMAIN S.docs)
        with_word == Cardinality(DOMAIN S.w2d[word])
    IN IF count = 0 \/ with_word = 0 THEN 0
       ELSE Ln(count) - Ln(with_word)

\* the caller's predicates of the model
Predicates == {"actual", "any", "rated"}
DocumentPredicate(p, id, status, rating) ==
    CASE p = "actual" -> status = "ACTUAL"
      [] p = "any" -> TRUE
      [] p = "rated" -> rating > 0

\* ascending order of the keys of a std::map<int, ...>
RECURSIVE SortedInts(_)
SortedInts(S) ==
    IF S = {} THEN <<>>
    ELSE LET k == CHOOSE x \in S : \A y \in S : x <= y
         IN <<k>> \o SortedInts(S \ {k})

\* The body of the loop over one plus word: the additions
\* document_to_relevance[document_id] += term_freq * inverse_document_freq
\* it makes, in order; thrown when documents_.at(document_id) throws.
RECURSIVE WordAdditions(_, _, _, _, _)
WordAdditions(S, word, ids, p, idf) ==
    IF ids = <<>> THEN [thrown |-> FALSE, adds |-> <<>>]
    ELSE LET id == Head(ids)
         IN IF id \notin DOMAIN S.docs THEN [thrown |-> TRUE, adds |-> <<>>]
            ELSE LET rest == WordAdditions(S, word, Tail(ids), p, idf)
                     mine == IF DocumentPredicate(p, id, S.docs[id].status, S.docs[id].rating)
                             THEN <<[key |-> id, val |-> S.w2d[word][id] * idf]>>
                             ELSE <<>>
                 IN [thrown |-> rest.thrown, adds |-> mine \o rest.adds]

PlusWord(S, word, p) ==
    IF word \notin DOMAIN S.w2d THEN [thrown |-> FALSE, adds |-> <<>>]
    ELSE WordAdditions(S, word, SortedInts(DOMAIN S.w2d[word]), p,
                       ComputeWordInverseDocumentFreq(S, word))

\* the document ids a minus word erases, in order
MinusWord(S, word) ==
    IF word \notin DOMAIN S.w2d THEN <<>> ELSE SortedInts(DOMAIN S.w2d[word])

\* value += v on a slot that is value-initialised when created
AddValue_assign(old, v) == v
AddValue(old, v) == old + v

RECURSIVE ApplyAdds(_, _)
ApplyAdds(rel, adds) ==
    IF adds = <<>> THEN rel
    ELSE LET a == Head(adds)
             old == IF a.key \in DOMAIN rel THEN rel[a.key] ELSE 0
         IN ApplyAdds(Put(rel, a.key, AddValue(old, a.val)), Tail(adds))

\* the first loop of FindAllDocuments(seq): [thrown, rel]
RECURSIVE Accumulate(_, _, _, _)
Accumulate(S, words, p, rel) ==
    IF words = <<>> THEN [thrown |-> FALSE, rel |-> rel]
    ELSE LET w == PlusWord(S, Head(words), p)
         IN IF w.thrown THEN [thrown |-> TRUE, rel |-> rel]
            ELSE Accumulate(S, Tail(words), p, ApplyAdds(rel, w.adds))

RECURSIVE DropAll(_, _)
DropAll(rel, ids) == IF ids = <<>> THEN rel ELSE DropAll(Drop(rel, Head(ids)), Tail(ids))

\* the second loop of FindAllDocuments(seq)
RECURSIVE Exclude(_, _, _)
Exclude(S, words, rel) ==
    IF words = <<>> THEN rel
    ELSE Exclude(S, Tail(words), DropAll(rel, MinusWord(S, Head(words))))

\* the last loop: one Document per key, in key order; thrown when
\* documents_.at(document_id) throws
MatchedDocuments(S, rel) ==
    LET ids == SortedInts(DOMAIN rel)
    IN IF \E id \in DOMAIN rel : id \notin DOMAIN S.docs
       THEN [outcome |-> "out_of_range", docs |-> <<>>]
       ELSE [outcome |-> "ok",
             docs |-> [i \in DOMAIN ids |->
                        [id |-> ids[i], relevance |-> rel[ids[i]],
                         rating |-> S.docs[ids[i]].rating]]]

\* FindAllDocuments(std::execution::seq, query, document_predicate)
FindAllDocuments(S, query, p) ==
    LET acc == Accumulate(S, query.plus_words, p, EmptyMap)
    IN IF acc.thrown THEN [outcome |-> "out_of_range", docs |-> <<>>]
       ELSE MatchedDocuments(S, Exclude(S, query.minus_words, acc.rel))

Abs(x) == IF x < 0 THEN -x ELSE x

\* lhs.relevance > rhs.relevance
\*   || (std::abs(lhs.relevance - rhs.relevance) < EPSILON && lhs.rating > rhs.rating)
Before(lhs, rhs) ==
    \/ lhs.relevance > rhs.relevance
    \/ /\ Abs(lhs.relevance - rhs.relevance) < RelUnit \div EpsilonInverse
       /\ lhs.rating > rhs.rating

\* std::sort of at most 16 elements is libstdc++'s insertion sort (the
\* parallel policy falls back to std::sort below its cut-off).
\* __unguarded_linear_insert: the element moves down past every element it
\* is Before, from the end
RECURSIVE LinearInsert(_, _)
LinearInsert(sorted, d) ==
    IF sorted = <<>> THEN <<d>>
    ELSE LET lst == sorted[Len(sorted)]
         IN IF Before(d, lst)
            THEN Append(LinearInsert(SubSeq(sorted, 1, Len(sorted) - 1), d), lst)
            ELSE Append(sorted, d)

\* __insertion_sort: an element that is Before the first one goes to the
\* front, any other is inserted from the end
InsertDoc(sorted, d) ==
    IF sorted = <<>> THEN <<d>>
    ELSE IF Before(d, sorted[1]) THEN <<d>> \o sorted
    ELSE LinearInsert(sorted, d)

RECURSIVE SortDocs(_)
SortDocs(docs) ==
    IF docs = <<>> THEN <<>>
    ELSE InsertDoc(SortDocs(SubSeq(docs, 1, Len(docs) - 1)), docs[Len(docs)])

\* sort, then resize to MAX_RESULT_DOCUMENT_COUNT
TopDocuments(docs) ==
    LET sorted == SortDocs(docs)
    IN IF Len(sorted) > MAX_RESULT_DOCUMENT_COUNT
       THEN SubSeq(sorted, 1, MAX_RESULT_DOCUMENT_COUNT)
       ELSE sorted

\* FindTopDocuments(std::execution::seq, raw_query, document_predicate)
FindTopDocumentsOp(S, raw_query, p) ==
    LET query == ParseQuery(raw_query, TRUE)
    IN IF ~query.ok THEN [outcome |-> "invalid_argument", docs |-> <<>>]
       ELSE LET all == FindAllDocuments(S, query, p)
            IN [outcome |-> all.outcome, docs |-> TopDocuments(all.docs)]

\* ------------------------------------------------------------------ state
VARIABLES
    word_to_document_freqs_,   \* word -> (document id -> frequency)
    document_to_word_freqs_,   \* document id -> (word -> frequency)
    documents_,                \* document id -> [rating, status]
    document_ids_,             \* set of document ids
    aborted,                   \* the process was ended by a trap
    match_query,               \* `static const auto& query` of MatchDocument
    match_query_par,           \* `static const auto& query` of the parallel MatchDocument
    last,                      \* the last call: its arguments and what it returned
    bucket_count,              \* ConcurrentMap: megamap_.size()
    megamap_,                  \* ConcurrentMap: bucket -> local map (non-empty ones)
    lock,                      \* ConcurrentMap: bucket -> holder of its mutex (held ones)
    todo,                      \* worker -> the operations it was given
    at,                        \* worker -> the index in todo of its current operation
    pc,                        \* worker -> where it is in its current operation
    pos,                       \* worker -> the bucket its Erase loop is at
    merge,                     \* BuildOrdinaryMap: [pc, pos, total, joined]
    phase,                     \* where the parallel call is
    call                       \* the arguments of the parallel call

index_vars == <<word_to_document_freqs_, document_to_word_freqs_, documents_, document_ids_>>
static_vars == <<match_query, match_query_par>>
map_vars == <<bucket_count, megamap_, lock, todo, at, pc, pos, merge>>
server_vars == <<index_vars, aborted, static_vars, last, phase, call>>
par_vars == <<bucket_count, megamap_, lock, todo, at, pc, pos, merge, phase, call>>
vars == <<word_to_document_freqs_, document_to_word_freqs_, documents_, document_ids_,
          aborted, match_query, match_query_par, last,
          bucket_count, megamap_, lock, todo, at, pc, pos, merge, phase, call>>

\* the server's containers as one value
Index == [w2d |-> word_to_document_freqs_, d2w |-> document_to_word_freqs_,
          docs |-> documents_, ids |-> document_ids_]

SetIndex(S) ==
    /\ word_to_document_freqs_' = S.w2d
    /\ document_to_word_freqs_' = S.d2w
    /\ documents_' = S.docs
    /\ document_ids_' = S.ids

\* ----------------------------------------------------------------- inputs
\* const int buckets=100;
buckets == 100

\* the i-th document id of the callers: 0, 100, 1, 101, ... (ids that share
\* a bucket of the ConcurrentMap come first)
DocId(i) == (i % 2) * buckets + (i \div 2)
DocIds == {DocId(i) : i \in 0 .. MaxDocs - 1}
\* with an id AddDocument rejects
AnyIds == DocIds \cup {-1}

DocTokens == {W_a, W_b, W_in, W_ctl}
DocTexts == {Join(ws) : ws \in TokenLists(DocTokens, MaxTextLen)}
Statuses == {"ACTUAL", "BANNED"}
\* the inputs of the calls that only build the index
IndexStatuses == {"ACTUAL"}
IndexRatingLists == {<<>>, <<1, -1>>}

\* the record of a call:
\*   op, id    the operation and its document id
\*   valid     every token of the text (the query) is a valid word
\*   terms     the non-stop words of the text (the required terms of the query)
\*   minus     the excluded terms of the query
\*   outcome   "ok", or the exception the call ended with
\*   result    the words (the document ids) returned
\*   status    the status returned
CallResult(op, id, valid, terms, minus, outcome, result, status) ==
    [op |-> op, id |-> id, valid |-> valid, terms |-> terms, minus |-> minus,
     outcome |-> outcome, result |-> result, status |-> status]
Call(op, id, valid, terms, outcome) ==
    CallResult(op, id, valid, terms, {}, outcome, <<>>, "")
NoCall == Call("none", 0, TRUE, {}, "ok")

\* every stored forward frequency stays within the cap of the model
WithinCap(S) ==
    \A w \in DOMAIN S.w2d : \A d \in DOMAIN S.w2d[w] : S.w2d[w][d] <= MaxAccum * FreqUnit

\* ---------------------------------------------------------- ConcurrentMap
\* the main thread, as a holder of a mutex (the workers are 1, 2, ...)
Main == 0
Workers == DOMAIN todo

\* auto select = static_cast<uint64_t>(key) % megamap_.size();
Select(key) == key % bucket_count

\* megamap_[b].local
Local(b) == IF b \in DOMAIN megamap_ THEN megamap_[b] ELSE EmptyMap
WithLocal(mm, b, m) == IF m = EmptyMap THEN Drop(mm, b) ELSE Put(mm, b, m)

\* std::lock_guard on megamap_[b].localm blocks while the mutex is held
CanLock_always(b) == TRUE
CanLock(b) == b \notin DOMAIN lock
\* the end of the scope of the guard: the mutex of bucket b is released
Unlock_keep(lk, b) == lk
Unlock(lk, b) == Drop(lk, b)

AddOp(key, val) == [kind |-> "add", key |-> key, val |-> val]
EraseOp(key) == [kind |-> "erase", key |-> key, val |-> 0]

\* A bucket nobody can write any more and nobody holds: its map is empty,
\* its mutex free, and no worker has an addition to it left.  A loop over
\* the buckets passes such a bucket without an effect another thread could
\* see, so the loops below pass it within the step that reaches it.
Quiet(mm, lk, b) ==
    /\ b \notin DOMAIN mm
    /\ b \notin DOMAIN lk
    /\ \A t \in Workers : \A i \in at[t] .. Len(todo[t]) :
           todo[t][i].kind = "add" => Select(todo[t][i].key) # b

\* for(auto& item : megamap_): the next bucket at or after i, or bucket_count
NextBucket(mm, lk, i) ==
    LET rest == {b \in i .. bucket_count - 1 : ~Quiet(mm, lk, b)}
    IN IF rest = {} THEN bucket_count ELSE CHOOSE b \in rest : \A c \in rest : b <= c

HasOp(t) == at[t] <= Len(todo[t])
Current(t) == todo[t][at[t]]

\* operator[] -> Access(key, local, localm): `lock` is the first member, so
\* the mutex is taken before localmap[key] is evaluated
AccessLock(t) ==
    /\ pc[t] = "idle" /\ HasOp(t) /\ Current(t).kind = "add"
    /\ CanLock(Select(Current(t).key))
    /\ lock' = Put(lock, Select(Current(t).key), t)
    /\ pc' = [pc EXCEPT ![t] = "access_locked"]
    /\ UNCHANGED <<bucket_count, megamap_, todo, at, pos, merge>>
    /\ UNCHANGED server_vars

\* ref_to_value(localmap[key]), then .ref_to_value += term_freq * idf
AccessUpdate(t) ==
    /\ pc[t] = "access_locked"
    /\ LET b == Select(Current(t).key)
           key == Current(t).key
           old == IF key \in DOMAIN Local(b) THEN Local(b)[key] ELSE 0
       IN megamap_' = WithLocal(megamap_, b, Put(Local(b), key, AddValue(old, Current(t).val)))
    /\ pc' = [pc EXCEPT ![t] = "access_updated"]
    /\ UNCHANGED <<bucket_count, lock, todo, at, pos, merge>>
    /\ UNCHANGED server_vars

\* ~Access at the end of the full expression releases the mutex
AccessRelease(t) ==
    /\ pc[t] = "access_updated"
    /\ lock' = Unlock(lock, Select(Current(t).key))
    /\ at' = [at EXCEPT ![t] = @ + 1]
    /\ pc' = [pc EXCEPT ![t] = "idle"]
    /\ UNCHANGED <<bucket_count, megamap_, todo, pos, merge>>
    /\ UNCHANGED server_vars

\* the worker is in Erase(key), before the test of a bucket
InEraseLoop(t) ==
    \/ pc[t] = "idle" /\ HasOp(t) /\ Current(t).kind = "erase"
    \/ pc[t] = "erase_loop"
ErasePos(t) == IF pc[t] = "idle" THEN NextBucket(megamap_, lock, 0) ELSE pos[t]

\* the worker moves on to bucket j of its Erase loop, or leaves Erase
EraseAdvance(t, mm, lk, i) ==
    LET j == NextBucket(mm, lk, i)
    IN IF j = bucket_count
       THEN /\ at' = [at EXCEPT ![t] = @ + 1]
            /\ pc' = [pc EXCEPT ![t] = "idle"]
            /\ pos' = [pos EXCEPT ![t] = 0]
       ELSE /\ pc' = [pc EXCEPT ![t] = "erase_loop"]
            /\ pos' = [pos EXCEPT ![t] = j]
            /\ UNCHANGED at

\* item.local.find(key) is read without the mutex: while another worker
\* holds the mutex of that bucket (it inserts into or erases from the same
\* std::map) the read is a data race and finds the key or not
UnlockedRead(t, b) == b \in DOMAIN lock /\ lock[b] \notin {t, Main}
FindResults(t, b, key) ==
    IF UnlockedRead(t, b) THEN BOOLEAN ELSE {key \in DOMAIN Local(b)}

\* if(item.local.find(key)!=item.local.end())
EraseCheck(t) ==
    /\ InEraseLoop(t)
    /\ LET b == ErasePos(t)
       IN IF b = bucket_count
          THEN EraseAdvance(t, megamap_, lock, b)
          ELSE \E found \in FindResults(t, b, Current(t).key) :
                   IF found
                   THEN /\ pc' = [pc EXCEPT ![t] = "erase_found"]
                        /\ pos' = [pos EXCEPT ![t] = b]
                        /\ UNCHANGED at
                   ELSE EraseAdvance(t, megamap_, lock, b + 1)
    /\ UNCHANGED <<bucket_count, megamap_, lock, todo, merge>>
    /\ UNCHANGED server_vars

\* std::lock_guard guard(item.localm);
EraseLock(t) ==
    /\ pc[t] = "erase_found"
    /\ CanLock(pos[t])
    /\ lock' = Put(lock, pos[t], t)
    /\ pc' = [pc EXCEPT ![t] = "erase_locked"]
    /\ UNCHANGED <<bucket_count, megamap_, todo, at, pos, merge>>
    /\ UNCHANGED server_vars

\* item.local.erase(key); and the end of the guard's scope
EraseUnlock(t) ==
    /\ pc[t] = "erase_locked"
    /\ LET b == pos[t]
           mm == WithLocal(megamap_, b, Drop(Local(b), Current(t).key))
           lk == Unlock(lock, b)
       IN /\ megamap_' = mm
          /\ lock' = lk
          /\ EraseAdvance(t, mm, lk, b + 1)
    /\ UNCHANGED <<bucket_count, todo, merge>>
    /\ UNCHANGED server_vars

AllDone_always == TRUE
AllDone == \A t \in Workers : pc[t] = "idle" /\ ~HasOp(t)

\* total.insert(first, last): a key already in total is left as it is
InsertAll(total, local) ==
    [k \in DOMAIN total \cup DOMAIN local |-> IF k \in DOMAIN total THEN total[k] ELSE local[k]]

\* BuildOrdinaryMap is entered
MergeBegin ==
    /\ merge.pc = "idle"
    /\ \/ phase = "harness"
       \/ phase = "minus" /\ AllDone
    /\ LET b == NextBucket(megamap_, lock, 0)
       IN merge' = [pc |-> IF b = bucket_count THEN "done" ELSE "loop", pos |-> b,
                    total |-> EmptyMap, joined |-> AllDone]
    /\ UNCHANGED <<bucket_count, megamap_, lock, todo, at, pc, pos>>
    /\ UNCHANGED server_vars

\* std::lock_guard guard(item.localm);
MergeLock ==
    /\ merge.pc = "loop"
    /\ CanLock(merge.pos)
    /\ lock' = Put(lock, merge.pos, Main)
    /\ merge' = [merge EXCEPT !.pc = "copy"]
    /\ UNCHANGED <<bucket_count, megamap_, todo, at, pc, pos>>
    /\ UNCHANGED server_vars

\* total.insert(item.local.begin(), item.local.end()); and the end of the scope
MergeCopy ==
    /\ merge.pc = "copy"
    /\ LET lk == Unlock(lock, merge.pos)
           b == NextBucket(megamap_, lk, merge.pos + 1)
       IN /\ lock' = lk
          /\ merge' = [merge EXCEPT !.pc = IF b = bucket_count THEN "done" ELSE "loop",
                                    !.pos = b,
                                    !.total = InsertAll(merge.total, Local(merge.pos))]
    /\ UNCHANGED <<bucket_count, megamap_, todo, at, pc, pos>>
    /\ UNCHANGED server_vars

IdleMerge == [pc |-> "idle", pos |-> 0, total |-> EmptyMap, joined |-> FALSE]

\* no ConcurrentMap exists
NoParallelCall ==
    /\ bucket_count = 0
    /\ megamap_ = EmptyMap
    /\ lock = EmptyMap
    /\ todo = <<>>
    /\ at = <<>>
    /\ pc = <<>>
    /\ pos = <<>>
    /\ merge = IdleMerge
    /\ phase = "none"
    /\ call = [raw_query |-> <<>>, predicate |-> "any"]

\* the containers hold S
IndexIs(S) ==
    /\ word_to_document_freqs_ = S.w2d
    /\ document_to_word_freqs_ = S.d2w
    /\ documents_ = S.docs
    /\ document_ids_ = S.ids

\* ---------------------------------------------------------------- actions
Init ==
    /\ word_to_document_freqs_ = EmptyMap
    /\ document_to_word_freqs_ = EmptyMap
    /\ documents_ = EmptyMap
    /\ document_ids_ = {}
    /\ aborted = FALSE
    /\ match_query = NoQuery
    /\ match_query_par = NoQuery
    /\ last = NoCall
    /\ NoParallelCall

AddDocument(id, text, status, ratings) ==
    /\ ~aborted
    /\ \E o \in AddDocumentOutcomes(Index, id, text, status, ratings) :
        /\ WithinCap(o.S)
        /\ SetIndex(o.S)
        /\ aborted' = (o.outcome = "abort")
        /\ last' = Call("add", id, SplitIntoWordsNoStop(text).ok,
                        Range(SplitIntoWordsNoStop(text).words), o.outcome)
        /\ UNCHANGED <<static_vars, par_vars>>

RemoveDocument(id) ==
    /\ ~aborted
    /\ \E T \in RemoveDocumentOutcomes(Index, id) : SetIndex(T)
    /\ last' = Call("remove", id, TRUE, {}, "ok")
    /\ UNCHANGED <<aborted, static_vars, par_vars>>

Next ==
    \/ \E id \in AnyIds, text \in DocTexts, status \in IndexStatuses,
          ratings \in IndexRatingLists :
           AddDocument(id, text, status, ratings)
    \/ \E id \in AnyIds : RemoveDocument(id)

Spec == Init /\ [][Next]_vars

\* ------------------------------------------------------- matching calls
QueryTokens == {W_a, W_b, W_minus \o W_a}
QueryTexts == {Join(ws) : ws \in TokenLists(QueryTokens, MaxQueryLen)}
MatchRatingLists == {<<1, -1>>}
\* the documents of the matching calls
MatchDocIds == {DocId(0)}

\* the digest of a query for the record of a call
QueryCall(op, id, raw_query, r) ==
    LET q == ParseQuery(raw_query, FALSE)
    IN CallResult(op, id, q.ok, Range(q.plus_words), Range(q.minus_words),
                  r.outcome, r.words, r.status)

MatchDocument(raw_query, id) ==
    /\ ~aborted
    /\ LET r == MatchDocumentOp(Index, match_query, raw_query, id)
       IN /\ match_query' = r.query
          /\ last' = QueryCall("match", id, raw_query, r)
    /\ UNCHANGED <<index_vars, aborted, match_query_par, par_vars>>

MatchDocumentPar(raw_query, id) ==
    /\ ~aborted
    /\ LET r == MatchDocumentParOp(Index, match_query_par, raw_query, id)
       IN /\ match_query_par' = r.query
          /\ last' = QueryCall("match_par", id, raw_query, r)
    /\ UNCHANGED <<index_vars, aborted, match_query, par_vars>>

NextMatch ==
    \/ \E id \in MatchDocIds, text \in DocTexts, status \in Statuses,
          ratings \in MatchRatingLists :
           AddDocument(id, text, status, ratings)
    \/ \E id \in MatchDocIds : RemoveDocument(id)
    \/ \E raw_query \in QueryTexts, id \in MatchDocIds : MatchDocument(raw_query, id)
    \/ \E raw_query \in QueryTexts, id \in MatchDocIds : MatchDocumentPar(raw_query, id)

SpecMatch == Init /\ [][NextMatch]_vars

\* ---------------------------------------------------- ConcurrentMap harness
\* worker threads that run additions and erasures on one ConcurrentMap of
\* MapBuckets buckets while the main thread may call BuildOrdinaryMap
MapBuckets == 2
MapThreads == 2
MapOpsLen == 2
MapKeys == 0 .. MapBuckets
MapOps == {AddOp(k, 1) : k \in MapKeys} \cup {EraseOp(k) : k \in MapKeys}
MapOpLists == UNION {[1 .. n -> MapOps] : n \in 0 .. MapOpsLen}

InitMap ==
    /\ IndexIs(EmptyIndex)
    /\ aborted = FALSE
    /\ match_query = NoQuery
    /\ match_query_par = NoQuery
    /\ last = NoCall
    /\ bucket_count = MapBuckets
    /\ megamap_ = EmptyMap
    /\ lock = EmptyMap
    /\ todo \in [1 .. MapThreads -> MapOpLists]
    /\ at = [t \in 1 .. MapThreads |-> 1]
    /\ pc = [t \in 1 .. MapThreads |-> "idle"]
    /\ pos = [t \in 1 .. MapThreads |-> 0]
    /\ merge = IdleMerge
    /\ phase = "harness"
    /\ call = [raw_query |-> <<>>, predicate |-> "any"]

NextMap ==
    \/ \E t \in Workers : AccessLock(t)
    \/ \E t \in Workers : AccessUpdate(t)
    \/ \E t \in Workers : AccessRelease(t)
    \/ \E t \in Workers : EraseCheck(t)
    \/ \E t \in Workers : EraseLock(t)
    \/ \E t \in Workers : EraseUnlock(t)
    \/ MergeBegin
    \/ MergeLock
    \/ MergeCopy

SpecMap == InitMap /\ [][NextMap]_vars

\* ------------------------------------------------- parallel FindTopDocuments
\* one call of FindTopDocuments(std::execution::par, raw_query, predicate)
\* on an index that AddDocument built; each word of a for_each runs on a
\* worker of its own
ParQueryLen == 3
ParDocTokens == {W_a, W_b}
ParDocTexts == {Join(ws) : ws \in TokenLists(ParDocTokens, MaxTextLen)}
ParRatingLists == {<<8, -3>>}
ParQueryTokens == {W_a, W_b, W_minus \o W_a, W_minus \o W_b}
ParQueryTexts == {Join(ws) : ws \in TokenLists(ParQueryTokens, ParQueryLen)}
ParPredicates == {"actual", "any"}

\* the index after AddDocument(id, text, status, ratings)
Added1(S, id, text, status, ratings) ==
    LET done == {o \in AddDocumentOutcomes(S, id, text, status, ratings) : o.outcome = "ok"}
    IN IF done = {} THEN S ELSE (CHOOSE o \in done : TRUE).S

ParDocuments ==
    {[text |-> text, status |-> status, ratings |-> ratings] :
        text \in ParDocTexts, status \in Statuses, ratings \in ParRatingLists}

\* the indexes AddDocument builds: each document id is absent or added once
RECURSIVE AddedIndexes(_, _)
AddedIndexes(S, ids) ==
    IF ids = <<>> THEN {S}
    ELSE LET rest == AddedIndexes(S, Tail(ids))
         IN rest \cup {Added1(T, Head(ids), d.text, d.status, d.ratings) :
                          T \in rest, d \in ParDocuments}
ParIndexes == AddedIndexes(EmptyIndex, SortedInts(DocIds))

InitPar ==
    /\ \E S \in ParIndexes : IndexIs(S)
    /\ aborted = FALSE
    /\ match_query = NoQuery
    /\ match_query_par = NoQuery
    /\ last = NoCall
    /\ bucket_count = 0
    /\ megamap_ = EmptyMap
    /\ lock = EmptyMap
    /\ todo = <<>>
    /\ at = <<>>
    /\ pc = <<>>
    /\ pos = <<>>
    /\ merge = IdleMerge
    /\ phase = "ready"
    /\ call \in [raw_query : ParQueryTexts, predicate : ParPredicates]

\* the workers of a for_each, one for each element of tasks
StartWorkers(tasks) ==
    /\ todo' = tasks
    /\ at' = [t \in DOMAIN tasks |-> 1]
    /\ pc' = [t \in DOMAIN tasks |-> "idle"]
    /\ pos' = [t \in DOMAIN tasks |-> 0]

AddOps(adds) == [i \in DOMAIN adds |-> AddOp(adds[i].key, adds[i].val)]
EraseOps(ids) == [i \in DOMAIN ids |-> EraseOp(ids[i])]

ParCall(outcome, ids) ==
    LET q == ParseQuery(call.raw_query, TRUE)
    IN CallResult("find_top_par", 0, q.ok, Range(q.plus_words), Range(q.minus_words),
                  outcome, ids, call.predicate)

\* ParseQuery, ConcurrentMap(buckets) and the first for_each begins; an
\* exception that leaves an element of the for_each ends the program
FindTopStart ==
    /\ phase = "ready"
    /\ \E query \in {ParseQuery(call.raw_query, TRUE)} :
       \E words \in {[i \in DOMAIN query.plus_words |->
                        PlusWord(Index, query.plus_words[i], call.predicate)]} :
          IF ~query.ok
          THEN /\ last' = ParCall("invalid_argument", <<>>)
               /\ phase' = "done"
               /\ UNCHANGED <<aborted, map_vars>>
          ELSE IF \E i \in DOMAIN words : words[i].thrown
          THEN /\ aborted' = TRUE
               /\ phase' = "done"
               /\ UNCHANGED <<last, map_vars>>
          ELSE /\ bucket_count' = buckets
               /\ megamap_' = EmptyMap
               /\ lock' = EmptyMap
               /\ merge' = IdleMerge
               /\ \E tasks \in {[i \in DOMAIN words |-> AddOps(words[i].adds)]} :
                      StartWorkers(tasks)
               /\ phase' = "plus"
               /\ UNCHANGED <<aborted, last>>
    /\ UNCHANGED <<index_vars, static_vars, call>>

\* the first for_each has returned; the second begins
FindTopBarrier ==
    /\ phase = "plus" /\ AllDone
    /\ \E query \in {ParseQuery(call.raw_query, TRUE)} :
       \E tasks \in {[i \in DOMAIN query.minus_words |->
                        EraseOps(MinusWord(Index, query.minus_words[i]))]} :
          StartWorkers(tasks)
    /\ phase' = "minus"
    /\ UNCHANGED <<index_vars, aborted, static_vars, last, call>>
    /\ UNCHANGED <<bucket_count, megamap_, lock, merge>>

\* BuildOrdinaryMap has returned: the documents are built, sorted and cut
FindTopFinish ==
    /\ phase = "minus" /\ merge.pc = "done"
    /\ \E all \in {MatchedDocuments(Index, merge.total)} :
       \E top \in {TopDocuments(all.docs)} :
          last' = ParCall(all.outcome, [i \in DOMAIN top |-> top[i].id])
    /\ phase' = "done"
    /\ UNCHANGED <<index_vars, aborted, static_vars, call, map_vars>>

NextPar ==
    \/ FindTopStart
    \/ \E t \in Workers : AccessLock(t)
    \/ \E t \in Workers : AccessUpdate(t)
    \/ \E t \in Workers : AccessRelease(t)
    \/ FindTopBarrier
    \/ \E t \in Workers : EraseCheck(t)
    \/ \E t \in Workers : EraseLock(t)
    \/ \E t \in Workers : EraseUnlock(t)
    \/ MergeBegin
    \/ MergeLock
    \/ MergeCopy
    \/ FindTopFinish

SpecPar == InitPar /\ [][NextPar]_vars

\* the same call on an index whose documents fall into different buckets,
\* under a scheduler that lets some thread run whenever one can
LockDocIds == <<0, 1>>
LockDocTexts == {Join(<<W_a>>), Join(<<W_a, W_b>>)}
RECURSIVE LockIndexesOf(_, _)
LockIndexesOf(S, ids) ==
    IF ids = <<>> THEN {S}
    ELSE LET rest == LockIndexesOf(S, Tail(ids))
         IN rest \cup {Added1(T, Head(ids), text, "ACTUAL", ratings) :
                          T \in rest, text \in LockDocTexts, ratings \in ParRatingLists}
LockIndexes == LockIndexesOf(EmptyIndex, LockDocIds)
LockQueryTexts == {Join(ws) : ws \in TokenLists(ParQueryTokens, MaxQueryLen)}

InitLocks ==
    /\ \E S \in LockIndexes : IndexIs(S)
    /\ aborted = FALSE
    /\ match_query = NoQuery
    /\ match_query_par = NoQuery
    /\ last = NoCall
    /\ bucket_count = 0
    /\ megamap_ = EmptyMap
    /\ lock = EmptyMap
    /\ todo = <<>>
    /\ at = <<>>
    /\ pc = <<>>
    /\ pos = <<>>
    /\ merge = IdleMerge
    /\ phase = "ready"
    /\ \E raw_query \in LockQueryTexts :
          call = [raw_query |-> raw_query, predicate |-> "any"]

SpecLocks == InitLocks /\ [][NextPar]_vars /\ WF_vars(NextPar)

\* --------------------------------------------------- parallel RemoveDocument
\* one call of RemoveDocument(std::execution::par, document_id) on an index
\* that AddDocument built; each element of the for_each runs on a worker of
\* its own.  What the dangling key of an element reads as is fixed by the
\* memory at the call, so it is chosen when the call begins.
StripOp(word) == [kind |-> "strip", key |-> word, val |-> 0]

InitRemove ==
    /\ \E S \in ParIndexes : IndexIs(S)
    /\ aborted = FALSE
    /\ match_query = NoQuery
    /\ match_query_par = NoQuery
    /\ last = NoCall
    /\ bucket_count = 0
    /\ megamap_ = EmptyMap
    /\ lock = EmptyMap
    /\ todo = <<>>
    /\ at = <<>>
    /\ pc = <<>>
    /\ pos = <<>>
    /\ merge = IdleMerge
    /\ phase = "remove_ready"
    /\ \E id \in DocIds : call = [id |-> id, before |-> EmptyIndex]

\* GetWordFrequencies, transform into `result`, and the for_each begins
RemoveParStart ==
    /\ phase = "remove_ready"
    /\ \E read \in KeyReads(Index, call.id) :
          LET keys == SortedSeq(DOMAIN GetWordFrequencies(Index, call.id))
          IN StartWorkers([i \in DOMAIN keys |-> <<StripOp(read[keys[i]])>>])
    /\ call' = [call EXCEPT !.before = Index]
    /\ phase' = "remove"
    /\ UNCHANGED <<index_vars, aborted, static_vars, last>>
    /\ UNCHANGED <<bucket_count, megamap_, lock, merge>>

\* another worker is inside an insertion into word_to_document_freqs_
InsertionRuns(t) == \E u \in Workers : u # t /\ pc[u] = "inserting"

\* word_to_document_freqs_[word]: std::map::operator[] finds the bucket or
\* begins to insert one.  The workers share the map without a mutex: while
\* another worker rebalances the tree for its insertion this is a data race,
\* and the call goes on as if it were alone or the program crashes.
StripSubscript(t) ==
    /\ phase = "remove" /\ ~aborted
    /\ pc[t] = "idle" /\ HasOp(t) /\ Current(t).kind = "strip"
    /\ \/ /\ pc' = [pc EXCEPT ![t] = IF Current(t).key \in DOMAIN word_to_document_freqs_
                                       THEN "found" ELSE "inserting"]
          /\ UNCHANGED aborted
       \/ /\ InsertionRuns(t)
          /\ aborted' = TRUE
          /\ UNCHANGED pc
    /\ UNCHANGED <<index_vars, static_vars, last, phase, call>>
    /\ UNCHANGED <<bucket_count, megamap_, lock, todo, at, pos, merge>>

\* the insertion of the value-initialised bucket is complete
StripInsert(t) ==
    /\ phase = "remove" /\ ~aborted
    /\ pc[t] = "inserting"
    /\ word_to_document_freqs_' =
           IF Current(t).key \in DOMAIN word_to_document_freqs_ THEN word_to_document_freqs_
           ELSE Put(word_to_document_freqs_, Current(t).key, EmptyMap)
    /\ pc' = [pc EXCEPT ![t] = "found"]
    /\ UNCHANGED <<document_to_word_freqs_, documents_, document_ids_>>
    /\ UNCHANGED <<aborted, static_vars, last, phase, call>>
    /\ UNCHANGED <<bucket_count, megamap_, lock, todo, at, pos, merge>>

\* .erase(document_id) on the bucket
StripErase(t) ==
    /\ phase = "remove" /\ ~aborted
    /\ pc[t] = "found"
    /\ word_to_document_freqs_' =
           StripForward(word_to_document_freqs_, Current(t).key, call.id)
    /\ at' = [at EXCEPT ![t] = @ + 1]
    /\ pc' = [pc EXCEPT ![t] = "idle"]
    /\ UNCHANGED <<document_to_word_freqs_, documents_, document_ids_>>
    /\ UNCHANGED <<aborted, static_vars, last, phase, call>>
    /\ UNCHANGED <<bucket_count, megamap_, lock, todo, pos, merge>>

\* the for_each has returned: the three erase calls
RemoveParFinish ==
    /\ phase = "remove" /\ ~aborted /\ AllDone
    /\ document_to_word_freqs_' = EraseReverse(document_to_word_freqs_, call.id)
    /\ documents_' = Drop(documents_, call.id)
    /\ document_ids_' = document_ids_ \ {call.id}
    /\ last' = Call("remove_par", call.id, TRUE, {}, "ok")
    /\ phase' = "removed"
    /\ UNCHANGED <<word_to_document_freqs_, aborted, static_vars, call, map_vars>>

NextRemove ==
    \/ RemoveParStart
    \/ \E t \in Workers : StripSubscript(t)
    \/ \E t \in Workers : StripInsert(t)
    \/ \E t \in Workers : StripErase(t)
    \/ RemoveParFinish

SpecRemove == InitRemove /\ [][NextRemove]_vars

\* ------------------------------------------------------- sorting and cutting
\* the sort and the resize of FindTopDocuments on the documents that
\* FindAllDocuments hands over: ascending ids, any relevance and rating
MaxSortDocs == 6
\* relevances that are equal, closer than EPSILON, and EPSILON apart
SortRelevances == {0, 1, RelUnit \div EpsilonInverse}
SortRatings == {0, 1}
SortInputs ==
    UNION {[1 .. n -> [relevance : SortRelevances, rating : SortRatings]] :
              n \in 0 .. MaxSortDocs}
MatchedList(f) ==
    [i \in DOMAIN f |-> [id |-> i, relevance |-> f[i].relevance, rating |-> f[i].rating]]

InitSort ==
    /\ IndexIs(EmptyIndex)
    /\ aborted = FALSE
    /\ match_query = NoQuery
    /\ match_query_par = NoQuery
    /\ last = NoCall
    /\ bucket_count = 0
    /\ megamap_ = EmptyMap
    /\ lock = EmptyMap
    /\ todo = <<>>
    /\ at = <<>>
    /\ pc = <<>>
    /\ pos = <<>>
    /\ merge = IdleMerge
    /\ phase = "sort_ready"
    /\ \E f \in SortInputs : call = [docs |-> MatchedList(f)]

\* sort(policy, ...) and matched_documents.resize(MAX_RESULT_DOCUMENT_COUNT)
SortAndCut ==
    /\ phase = "sort_ready"
    /\ last' = CallResult("top_documents", 0, TRUE, {}, {}, "ok", TopDocuments(call.docs), "")
    /\ phase' = "sorted"
    /\ UNCHANGED <<index_vars, aborted, static_vars, call, map_vars>>

NextSort == SortAndCut

SpecSort == InitSort /\ [][NextSort]_vars

\* ------------------------------------------------------------ query parsing
\* ParseQuery on the texts made of at most MaxParseLen of these tokens
MaxParseLen == 2
ParseTokens == {W_a, W_b, W_in, W_minus \o W_a, W_minus \o W_in, W_minus,
                W_minus \o W_minus \o W_a, W_ctl, W_minus \o W_ctl}

InitParse ==
    /\ IndexIs(EmptyIndex)
    /\ aborted = FALSE
    /\ match_query = NoQuery
    /\ match_query_par = NoQuery
    /\ last = NoCall
    /\ bucket_count = 0
    /\ megamap_ = EmptyMap
    /\ lock = EmptyMap
    /\ todo = <<>>
    /\ at = <<>>
    /\ pc = <<>>
    /\ pos = <<>>
    /\ merge = IdleMerge
    /\ phase = "parse_ready"
    /\ \E tokens \in TokenLists(ParseTokens, MaxParseLen), is_parallel \in BOOLEAN :
           call = [tokens |-> tokens, text |-> Join(tokens), is_parallel |-> is_parallel]

\* ParseQuery(text, is_parallel)
Parse ==
    /\ phase = "parse_ready"
    /\ LET query == ParseQuery(call.text, call.is_parallel)
       IN last' = CallResult("parse", 0, query.ok, {}, {},
                             IF query.ok THEN "ok" ELSE "invalid_argument",
                             [plus_words |-> query.plus_words,
                              minus_words |-> query.minus_words], "")
    /\ phase' = "parsed"
    /\ UNCHANGED <<index_vars, aborted, static_vars, call, map_vars>>

NextParse == Parse

SpecParse == InitParse /\ [][NextParse]_vars

\* ------------------------------------------------ sequential FindTopDocuments
\* AddDocument, RemoveDocument and FindTopDocuments(std::execution::seq, ...)
\* in any order
FindQueryTokens == {W_a, W_minus \o W_a}
FindQueryTexts == {Join(ws) : ws \in TokenLists(FindQueryTokens, MaxQueryLen)}
FindPredicates == {"actual"}

\* what FindTopDocuments returned, for the record of the call
FindCall(op, raw_query, p, r) ==
    LET q == ParseQuery(raw_query, TRUE)
    IN CallResult(op, 0, q.ok, Range(q.plus_words), Range(q.minus_words),
                  r.outcome, [i \in DOMAIN r.docs |-> r.docs[i].id], p)

FindTopDocuments(raw_query, p) ==
    /\ ~aborted
    /\ last' = FindCall("find_top", raw_query, p, FindTopDocumentsOp(Index, raw_query, p))
    /\ call' = [raw_query |-> raw_query, predicate |-> p]
    /\ UNCHANGED <<index_vars, aborted, static_vars, map_vars, phase>>

NextFind ==
    \/ \E id \in DocIds, text \in ParDocTexts, status \in IndexStatuses,
          ratings \in ParRatingLists :
           AddDocument(id, text, status, ratings)
    \/ \E id \in DocIds : RemoveDocument(id)
    \/ \E raw_query \in FindQueryTexts, p \in FindPredicates : FindTopDocuments(raw_query, p)

SpecFind == Init /\ [][NextFind]_vars

\* ----------------------------------------------------------------- claims
RECURSIVE SumMap(_)
SumMap(m) ==
    IF DOMAIN m = {} THEN 0
    ELSE LET k == CHOOSE x \in DOMAIN m : TRUE IN m[k] + SumMap(Drop(m, k))

\* the pairs (word, document, frequency) of the forward and of the reverse map
ForwardTriples ==
    UNION {{<<w, d, word_to_document_freqs_[w][d]>> : d \in DOMAIN word_to_document_freqs_[w]} :
              w \in DOMAIN word_to_document_freqs_}
ReverseTriples ==
    UNION {{<<w, d, document_to_word_freqs_[d][w]>> : w \in DOMAIN document_to_word_freqs_[d]} :
              d \in DOMAIN document_to_word_freqs_}

\* C1: after every sequence of AddDocument and RemoveDocument calls the
\* forward and the reverse map hold the same (word, document, frequency)
\* triples.
C1_DualIndexConsistency == ~aborted => ForwardTriples = ReverseTriples

C9_Original ==
    \A d \in document_ids_ : SumMap(GetWordFrequencies(Index, d)) = FreqUnit

\* C9 (amended): the frequencies stored for a live document that has at least
\* one non-stop word (an entry in the reverse map) sum to 1.
C9_FrequencySum ==
    \A d \in document_ids_ :
        d \in DOMAIN document_to_word_freqs_ =>
            SumMap(document_to_word_freqs_[d]) = FreqUnit

\* a live document of two distinct words, after a document was removed
C9_Witness ==
    /\ last.op = "remove"
    /\ last.id \in DocIds
    /\ last.id \notin document_ids_
    /\ \E d \in document_ids_ :
          /\ d \in DOMAIN document_to_word_freqs_
          /\ Cardinality(DOMAIN document_to_word_freqs_[d]) = 2

\* C10: after RemoveDocument(id) GetWordFrequencies(id) is the empty map, and
\* RemoveDocument of an id that is not live (removed before, or never added)
\* changes none of the four containers.
C10_IdempotentRemoval ==
    [][last'.op = "remove" =>
        /\ GetWordFrequencies(Index', last'.id) = EmptyMap
        /\ last'.id \notin document_ids_ => UNCHANGED index_vars]_vars

\* a document was removed from an index that holds another one
C10_Witness ==
    /\ last.op = "remove"
    /\ last.id \in DocIds
    /\ last.id \notin document_ids_
    /\ \E w \in DOMAIN word_to_document_freqs_ : word_to_document_freqs_[w] = EmptyMap
    /\ document_ids_ # {}

\* the words of a live document, as stored for it in the reverse map
DocumentWords(id) == DOMAIN GetWordFrequencies(Index, id)

MatchOps == {"match", "match_par"}
FindOps == {"find_top", "find_top_par"}

\* C4: a MatchDocument call on a live document answers for the query parsed
\* from its own raw_query: it returns the required terms of that query which
\* occur in the document, or no term when an excluded term of that query
\* occurs in it (and fails when that query does not parse).
C4_MatchUsesOwnQuery ==
    (last.op \in MatchOps /\ last.id \in document_ids_) =>
        IF ~last.valid THEN last.outcome = "invalid_argument"
        ELSE /\ last.outcome = "ok"
             /\ Range(last.result) =
                    IF last.minus \cap DocumentWords(last.id) # {} THEN {}
                    ELSE last.terms \cap DocumentWords(last.id)

\* C5: a document that contains an excluded term of the query is in no
\* FindTopDocuments result and gets no matched term from MatchDocument.
C5_ExcludedTermDominance ==
    /\ (last.op \in MatchOps /\ last.outcome = "ok"
            /\ last.minus \cap DocumentWords(last.id) # {}) => last.result = <<>>
    /\ (last.op \in FindOps /\ last.outcome = "ok") =>
           \A i \in DOMAIN last.result :
               last.minus \cap DocumentWords(last.result[i]) = {}

\* the worker holds an Access handle for a key of bucket b
HoldsHandle(t, b) ==
    /\ pc[t] \in {"access_locked", "access_updated"}
    /\ Select(Current(t).key) = b

\* the worker is about to evaluate item.local.find(key) on bucket b
AtEraseTest(t, b) == InEraseLoop(t) /\ ErasePos(t) = b /\ b < bucket_count

\* C3: Erase tests for the key inside the critical section of the bucket:
\* no worker is at the presence test of a bucket, which it runs without the
\* bucket's mutex, while another worker holds that mutex to modify the bucket.
C3_EraseTestUnderLock ==
    \A t \in Workers : \A b \in 0 .. bucket_count - 1 :
        AtEraseTest(t, b) => ~UnlockedRead(t, b)

\* C6: an Access handle is exclusive on its bucket: its holder holds the
\* bucket's mutex from before the slot is looked up or created until the
\* handle is destroyed, no two workers hold handles on one bucket, and
\* BuildOrdinaryMap copies no bucket a worker holds a handle on.
C6_AccessExclusive ==
    \A b \in 0 .. bucket_count - 1 :
        /\ \A t \in Workers : HoldsHandle(t, b) => b \in DOMAIN lock /\ lock[b] = t
        /\ \A t, u \in Workers : HoldsHandle(t, b) /\ HoldsHandle(u, b) => t = u
        /\ merge.pc = "copy" /\ merge.pos = b => \A t \in Workers : ~HoldsHandle(t, b)

\* a worker holds a handle on a bucket that another worker and the merge wait for
C6_Witness ==
    \E t, u \in Workers :
        /\ t # u
        /\ pc[t] = "access_updated"
        /\ pc[u] = "idle" /\ HasOp(u) /\ Current(u).kind = "add"
        /\ Current(u).key # Current(t).key
        /\ HoldsHandle(t, Select(Current(u).key))
        /\ merge.pc = "loop" /\ merge.pos = Select(Current(u).key)

\* what the workers were given to do with a key
AddedBy(t, key) ==
    SumSeq([i \in 1 .. Len(todo[t]) |->
               IF todo[t][i].kind = "add" /\ todo[t][i].key = key THEN todo[t][i].val ELSE 0])
Added(key) == SumSeq([t \in 1 .. Len(todo) |-> AddedBy(t, key)])
Accessed(key) == \E t \in Workers : \E i \in 1 .. Len(todo[t]) :
                    todo[t][i].kind = "add" /\ todo[t][i].key = key
Erased(key) == \E t \in Workers : \E i \in 1 .. Len(todo[t]) :
                    todo[t][i].kind = "erase" /\ todo[t][i].key = key
Keys == {todo[t][i].key : <<t, i>> \in {x \in Workers \X (0 .. MapOpsLen) : x[2] \in 1 .. Len(todo[x[1]])}}

\* C7: no addition is lost: when BuildOrdinaryMap runs after every worker has
\* finished, its result holds each key that was accessed and never erased,
\* with the sum of the values added to it, and no key that was not accessed.
C7_NoLostUpdate ==
    merge.pc = "done" /\ merge.joined =>
        \A key \in Keys :
            ~Erased(key) =>
                /\ key \in DOMAIN merge.total <=> Accessed(key)
                /\ Accessed(key) => merge.total[key] = Added(key)

\* two workers added to one key, a third key shares its bucket, and the merge is done
C7_Witness ==
    /\ merge.pc = "done" /\ merge.joined
    /\ \E key \in DOMAIN merge.total :
           /\ ~Erased(key)
           /\ \A t \in Workers : AddedBy(t, key) > 0
           /\ merge.total[key] = MapThreads
           /\ \E other \in DOMAIN merge.total : other # key /\ Select(other) = Select(key)

\* the ids of FindTopDocuments(std::execution::seq, ...) for the call's arguments
SequentialTop ==
    LET r == FindTopDocumentsOp(Index, call.raw_query, call.predicate)
    IN [outcome |-> r.outcome, ids |-> [i \in DOMAIN r.docs |-> r.docs[i].id]]

\* C2: the parallel FindTopDocuments returns the document ids the sequential
\* one returns for the same index, query and predicate, in the same order,
\* however its workers interleave.
C2_ParallelEqualsSequential ==
    phase = "done" /\ last.op = "find_top_par" =>
        /\ last.outcome = SequentialTop.outcome
        /\ last.result = SequentialTop.ids

\* C11: a parallel RemoveDocument ends, and in a state of the four containers
\* that the sequential RemoveDocument reaches from the same index for the
\* same id, however its workers interleave.
C11_ParallelRemoveEqualsSequential ==
    /\ phase = "remove" => ~aborted
    /\ phase = "removed" => Index \in RemoveDocumentOutcomes(call.before, call.id)

\* x ranks above y: by rating when the relevances are closer than EPSILON,
\* by relevance otherwise
RanksAbove(x, y) ==
    IF Abs(x.relevance - y.relevance) < RelUnit \div EpsilonInverse
    THEN x.rating > y.rating
    ELSE x.relevance > y.relevance

\* C12: a result of the sort and cut of FindTopDocuments has at most
\* MAX_RESULT_DOCUMENT_COUNT documents, no document of it ranks above one
\* that stands before it, and no document that was cut off ranks above one
\* of the result.
C12_TopOrdered ==
    phase = "sorted" =>
        LET r == last.result
            cut == Range(call.docs) \ Range(r)
        IN /\ Len(r) <= MAX_RESULT_DOCUMENT_COUNT
           /\ \A i, j \in DOMAIN r : i < j => ~RanksAbove(r[j], r[i])
           /\ \A d \in cut : \A i \in DOMAIN r : ~RanksAbove(d, r[i])

\* C13: a MatchDocument call (of either policy) for an id that is not live
\* ends with out_of_range, returns nothing and changes none of the four
\* containers; for a live id it does not end with out_of_range, and what it
\* returns carries the status stored for the document.
C13_MatchNotFound ==
    [][last'.op \in MatchOps =>
        /\ UNCHANGED index_vars
        /\ last'.id \notin document_ids_ =>
               last'.outcome = "out_of_range" /\ last'.result = <<>> /\ last'.status = ""
        /\ last'.id \in document_ids_ =>
               /\ last'.outcome # "out_of_range"
               /\ last'.outcome = "ok" => last'.status = documents_[last'.id].status]_vars

\* a match for a document that was added and removed again, after a match
\* that found it live
C13_Witness ==
    /\ last.op \in MatchOps
    /\ last.outcome = "out_of_range"
    /\ last.id \notin document_ids_
    /\ word_to_document_freqs_ # EmptyMap
    /\ match_query.ok \/ match_query_par.ok

\* what a MatchDocument call returns to its caller
Returned(r) == [outcome |-> r.outcome, words |-> r.words, status |-> r.status]

\* C14: in every state, for every raw_query and every live id, the parallel
\* MatchDocument returns the words and the status the sequential one returns.
C14_ParallelMatchEqualsSequential ==
    \A raw_query \in QueryTexts : \A id \in document_ids_ :
        Returned(MatchDocumentParOp(Index, match_query_par, raw_query, id))
            = Returned(MatchDocumentOp(Index, match_query, raw_query, id))

\* a bare '-', two leading '-', or a character below 0x20
BadToken(t) ==
    \/ t = <<45>>
    \/ Len(t) >= 2 /\ t[1] = 45 /\ t[2] = 45
    \/ \E i \in DOMAIN t : t[i] < 32
LeadingMinus(t) == t # <<>> /\ t[1] = 45
Term(t) == IF LeadingMinus(t) THEN Tail(t) ELSE t
RECURSIVE Terms(_, _, _)
Terms(tokens, minus, drop_stop_terms) ==
    IF tokens = <<>> THEN <<>>
    ELSE LET t == Head(tokens)
             dropped == IF drop_stop_terms THEN Term(t) \in stop_words_ ELSE t \in stop_words_
         IN (IF LeadingMinus(t) = minus /\ ~dropped THEN <<Term(t)>> ELSE <<>>)
                \o Terms(Tail(tokens), minus, drop_stop_terms)

\* the list is `expected`: as it stands, or sorted and without duplicates
ListIs(list, expected, normalised) ==
    IF normalised
    THEN /\ Range(list) = Range(expected)
         /\ \A i, j \in DOMAIN list : i < j => StrLess(list[i], list[j])
    ELSE list = expected

ParsedAs(drop_stop_terms) ==
    phase = "parsed" =>
        /\ last.outcome = "invalid_argument" <=> \E i \in DOMAIN call.tokens : BadToken(call.tokens[i])
        /\ last.outcome = "ok" =>
               /\ ListIs(last.result.plus_words, Terms(call.tokens, FALSE, drop_stop_terms),
                         call.is_parallel)
               /\ ListIs(last.result.minus_words, Terms(call.tokens, TRUE, drop_stop_terms),
                         call.is_parallel)

\* C15 (as claimed): ParseQuery fails exactly when a token is a bare '-',
\* starts with two '-' or holds a control character; otherwise every token
\* with a leading '-' is in the excluded list without it, every other token
\* in the required list, except the tokens that are equal to a stop word.
C15_Original == ParsedAs(FALSE)

\* C15 (amended): as claimed, except that a token is in neither list when
\* its term (the token without a leading '-') is a stop word.
C15_QueryParsing == ParsedAs(TRUE)

\* a query with an excluded stop word and an excluded term was parsed
C15_Witness ==
    /\ phase = "parsed" /\ last.outcome = "ok"
    /\ call.tokens = <<W_minus \o W_in, W_minus \o W_a>>
    /\ last.result.minus_words = <<W_a>>

\* the relevance a document gets when every occurrence of a required term
\* in the query text adds term_freq * inverse_document_freq
RECURSIVE OccurrenceRelevance(_, _)
OccurrenceRelevance(words, id) ==
    IF words = <<>> THEN 0
    ELSE (IF WordInDocument(Index, Head(words), id)
          THEN word_to_document_freqs_[Head(words)][id]
                   * ComputeWordInverseDocumentFreq(Index, Head(words))
          ELSE 0) + OccurrenceRelevance(Tail(words), id)

\* C16: the sequential FindTopDocuments keeps the duplicates of the query: a
\* required term that occurs n times in the query text adds n times its
\* term_freq * inverse_document_freq to each document that contains it.
C16_SequentialKeepsDuplicates ==
    last.op = "find_top" /\ last.outcome = "ok" =>
        LET r == FindTopDocumentsOp(Index, call.raw_query, call.predicate).docs
        IN \A i \in DOMAIN r :
               r[i].relevance =
                   OccurrenceRelevance(Terms(SplitIntoWords(call.raw_query), FALSE, TRUE), r[i].id)

\* the live documents the query of the last call selects: some required term
\* in the document, the predicate holds, no excluded term in the document
Selected ==
    {id \in document_ids_ :
        /\ last.terms \cap DocumentWords(id) # {}
        /\ DocumentPredicate(last.status, id, documents_[id].status, documents_[id].rating)
        /\ last.minus \cap DocumentWords(id) = {}}

\* C17: the document ids a parallel ranking merges out of its accumulator,
\* before the cut to five, are exactly the live documents with a required
\* term of the query, for which the predicate holds, and without any
\* excluded term of the query.
C17_RankedSet ==
    phase = "done" /\ last.op = "find_top_par" /\ last.outcome = "ok" =>
        DOMAIN merge.total = Selected

\* C18: a removed id is no live id and has no stored document, a
\* FindTopDocuments result holds live ids only, and the result is empty when
\* no live document has a required term of the query.
C18_RemovedNeverFound ==
    /\ last.op = "remove" =>
           last.id \notin document_ids_ /\ last.id \notin DOMAIN documents_
    /\ last.op = "find_top" /\ last.outcome = "ok" =>
           /\ Range(last.result) \subseteq document_ids_
           /\ (\A id \in document_ids_ : last.terms \cap DocumentWords(id) = {})
                  => last.result = <<>>

\* the keys the accumulator holds, and "every worker has returned"
AccumulatorKeys == UNION {DOMAIN megamap_[b] : b \in DOMAIN megamap_}
Joined == \A t \in Workers : pc[t] = "idle" /\ at[t] > Len(todo[t])

\* C19: in a parallel FindTopDocuments the erasing for the excluded terms
\* begins only when every worker of the required terms has returned, and
\* BuildOrdinaryMap begins only when every erasing worker has returned; from
\* the first erase on no key is created in the accumulator.
C19_PhasesOrdered ==
    [][/\ phase = "plus" /\ phase' = "minus" => Joined
       /\ phase = "minus" /\ merge.pc = "idle" /\ merge'.pc # "idle" => Joined
       /\ phase = "minus" /\ phase' = "minus" =>
              /\ AccumulatorKeys' \subseteq AccumulatorKeys
              /\ \A t \in Workers : pc[t] \notin {"access_locked", "access_updated"}
       /\ phase = "plus" =>
              \A t \in Workers : HasOp(t) => Current(t).kind = "add"]_vars

\* a worker of an excluded term holds the lock of a bucket and is about to
\* erase a key that the workers of the required terms put there
C19_Witness ==
    /\ phase = "minus"
    /\ \E t \in Workers :
          /\ pc[t] = "erase_locked"
          /\ Current(t).key \in DOMAIN Local(pos[t])

\* C20: no thread holds the mutexes of two buckets at the same time, and
\* under a fair scheduler every parallel FindTopDocuments call ends (so no
\* state is reached in which the call is stuck on its locks).
C20_LocksAndTermination ==
    /\ [](\A b1, b2 \in DOMAIN lock : lock[b1] = lock[b2] => b1 = b2)
    /\ <>(phase = "done")

\* two workers hold the mutexes of two different buckets, a third bucket
\* aside: each of them has another bucket to go to
C20_Witness ==
    /\ phase \in {"plus", "minus"}
    /\ \E b1, b2 \in DOMAIN lock : b1 # b2
    /\ \E t \in Workers : pc[t] # "idle" /\ at[t] < Len(todo[t])

\* C21: when FindTopDocuments computes the inverse document frequency of a
\* required term, i.e. for each required term that is a key of the forward
\* map, the number of documents under the term is at least 1 and at most
\* GetDocumentCount().
C21_IdfWellDefined ==
    last.op = "find_top" /\ last.valid =>
        \A word \in last.terms \cap DOMAIN word_to_document_freqs_ :
            /\ Cardinality(DOMAIN word_to_document_freqs_[word]) >= 1
            /\ Cardinality(DOMAIN word_to_document_freqs_[word]) <= Cardinality(DOMAIN documents_)

\* C22: after every AddDocument and RemoveDocument call that has returned or
\* thrown, the id set is the key set of the document store, every document
\* id under a word of the forward map and every key of the reverse map is in
\* the id set, and GetDocumentCount() is the size of the id set.
C22_IdSetAgreement ==
    last.op \in {"add", "remove"} /\ ~aborted =>
        /\ document_ids_ = DOMAIN documents_
        /\ \A word \in DOMAIN word_to_document_freqs_ :
               DOMAIN word_to_document_freqs_[word] \subseteq document_ids_
        /\ DOMAIN document_to_word_freqs_ \subseteq document_ids_
        /\ Cardinality(DOMAIN documents_) = Cardinality(document_ids_)

====
